---- MODULE Spec2Model ----
(***************************************************************************)
(* Model of sway-utils/src/helpers.rs: the source-file collector, the      *)
(* prefix iterator, and the downward and upward manifest searches.         *)
(*                                                                         *)
(* A file name is a sequence of characters, a path is the sequence of its  *)
(* components below the filesystem root (<<>> is "/"), and an Option is a  *)
(* set with at most one element (None is {}, Some(x) is {x}).              *)
(***************************************************************************)
EXTENDS Integers, Sequences, FiniteSets, TLC

VARIABLES
    \* the filesystem the calls read
    fs,            \* [dirs: set of paths, files: set of paths]; <<>> is always a directory
    unreadable,    \* the directories whose listing fails (fs::read_dir returns Err)
    \* iter_prefixes
    slice,         \* the borrowed input slice
    range,         \* the RangeInclusive 1..=slice.len(): [start, end, exhausted]
    yielded,       \* the items next() has returned Some(..) for, in order
    yielded_back,  \* the items next_back() has returned Some(..) for, in order
    it_done,       \* next() or next_back() has returned None
    \* get_sway_files
    c_pc,          \* "loop" | "done"
    c_path,        \* the argument `path`
    dir_entries,   \* the work-list (a stack) of pending directories
    files,         \* the collected files
    c_result,      \* the returned Vec
    \* find_nested_dir_with_file
    n_pc,          \* "start" | "walk" | "done"
    starter_path,  \* the argument `starter_path`
    n_file_name,   \* the argument `file_name`
    starter_dir,   \* Option: the directory the self-match is taken against
    walk,          \* the WalkDir iterator: [start: Option<path>, stack: Seq of open directories]
    n_result,      \* Option<PathBuf>
    \* find_parent_dir_with_file / find_parent_manifest_dir_with_check
    p_pc,          \* "canon" | "loop" | "found" | "done"
    p_call,        \* which entry point was called
    p_calls,       \* the `starter_path` argument of each active call, outermost first
    p_file_name,   \* the argument `file_name`
    path,          \* the local `path` of find_parent_dir_with_file
    found,         \* Option: what find_parent_dir_with_file returned
    check,         \* the predicate: the set of directories it accepts
    checked,       \* the directories `check` has been invoked on, in order
    p_result       \* Option<PathBuf>

fsVars == <<fs, unreadable>>
itVars == <<slice, range, yielded, yielded_back, it_done>>
cVars  == <<c_pc, c_path, dir_entries, files, c_result>>
nVars  == <<n_pc, starter_path, n_file_name, starter_dir, walk, n_result>>
pVars  == <<p_pc, p_call, p_calls, p_file_name, path, found, check, checked, p_result>>
vars   == <<fsVars, itVars, cVars, nVars, pVars>>

-----------------------------------------------------------------------------
\* Bounds of the model.

\* the longest input slice of iter_prefixes
MaxLen == 3
\* the largest number of entries (files and directories) below "/"
MaxEntries == 3
\* the largest number of entries below "/" in an upward search
MaxUpEntries == 4

-----------------------------------------------------------------------------
\* Option values.

None == {}
Some(x) == {x}

\* The value inside Some(x).
Unwrap(o) == CHOOSE x \in o : TRUE

-----------------------------------------------------------------------------
\* Names and paths.

\* constants::SWAY_EXTENSION ("sw")
SWAY_EXTENSION == <<"s", "w">>
\* constants::MANIFEST_FILE_NAME ("Forc.toml")
MANIFEST_FILE_NAME == <<"F", "o", "r", "c", ".", "t", "o", "m", "l">>

\* The entry names the modelled filesystems are built from: the manifest,
\* a name with the source extension, and a name with no extension.
Names == { MANIFEST_FILE_NAME, <<"a", ".", "s", "w">>, <<"s", "u", "b">> }

\* The entry names of the filesystems the upward searches are run on.
UpNames == { MANIFEST_FILE_NAME, <<"s", "u", "b">> }

\* PathBuf::from("/")
root_path == <<>>

\* Path::join / PathBuf::push of one normal component.
Join(p, name) == Append(p, name)

\* Path::parent: None for "/".
Parent(p) == IF p = root_path THEN None ELSE Some(SubSeq(p, 1, Len(p) - 1))

\* PathBuf::pop: drops the last component; a no-op on "/".
Pop(p) == IF p = root_path THEN p ELSE SubSeq(p, 1, Len(p) - 1)

\* Path::file_name: None for "/".
FileName(p) == IF p = root_path THEN None ELSE Some(p[Len(p)])

\* Path::extension of a file name: the part after the last dot, None when
\* there is no dot, when the name is "..", or when the last dot starts the name.
NameExtension(name) ==
    LET dots == { i \in 1..Len(name) : name[i] = "." }
    IN  IF name = <<".", ".">> \/ dots = {} THEN None
        ELSE LET last == CHOOSE i \in dots : \A j \in dots : j <= i
             IN  IF last = 1 THEN None
                 ELSE Some(SubSeq(name, last + 1, Len(name)))

Extension(p) == IF FileName(p) = None THEN None ELSE NameExtension(Unwrap(FileName(p)))

\* p is q or lies below q.
IsPrefix(q, p) == Len(q) <= Len(p) /\ SubSeq(p, 1, Len(q)) = q

-----------------------------------------------------------------------------
\* The filesystem.

EmptyFS == [dirs |-> {root_path}, files |-> {}]

Entries(t) == (t.dirs \cup t.files) \ {root_path}

\* The trees with one entry more than t, the entry named from names.
Grow(t, names) ==
    { [dirs |-> t.dirs \cup (IF k = "dir" THEN {Join(d, nm)} ELSE {}),
       files |-> t.files \cup (IF k = "file" THEN {Join(d, nm)} ELSE {})] :
         <<d, nm, k>> \in { x \in t.dirs \X names \X {"dir", "file"} :
                              Join(x[1], x[2]) \notin t.dirs \cup t.files } }

RECURSIVE TreesOfSize(_, _)
TreesOfSize(n, names) ==
    IF n = 0 THEN {EmptyFS} ELSE UNION { Grow(t, names) : t \in TreesOfSize(n - 1, names) }

\* Every filesystem with at most MaxEntries entries: what the downward
\* traversals are run on.
Trees == UNION { TreesOfSize(n, Names) : n \in 0..MaxEntries }

\* Every filesystem with at most MaxUpEntries entries named from UpNames:
\* what the upward searches are run on.
UpTrees == UNION { TreesOfSize(n, UpNames) : n \in 0..MaxUpEntries }

\* Path::is_dir, Path::is_file, Path::exists
is_dir(p) == p \in fs.dirs
is_file(p) == p \in fs.files
exists(p) == p \in fs.dirs \cup fs.files

\* The names fs::read_dir lists in directory d.
Children(d) == { p \in fs.dirs \cup fs.files : p # root_path /\ Pop(p) = d }

\* The paths a call can be given: every existing path, and a missing entry
\* of every directory.
Missing == <<"g", "o", "n", "e">>
StartPaths == fs.dirs \cup fs.files \cup { Join(d, Missing) : d \in fs.dirs }

\* The orders a directory listing can come in.
Orders(S) == { o \in [1..Cardinality(S) -> S] : \A i, j \in 1..Cardinality(S) : o[i] = o[j] => i = j }

-----------------------------------------------------------------------------
\* iter_prefixes (helpers.rs 43-45), and Iterator::next and
\* DoubleEndedIterator::next_back on its result.

Elems == {1, 2, 3}

RECURSIVE SeqsUpTo(_)
SeqsUpTo(n) ==
    IF n = 0 THEN { <<>> }
    ELSE SeqsUpTo(n - 1) \cup { Append(s, e) : s \in { t \in SeqsUpTo(n - 1) : Len(t) = n - 1 }, e \in Elems }

\* |len| &slice[..len]
PrefixOf(s, len) == SubSeq(s, 1, len)

\* RangeInclusive::next: the yielded index (an Option) and the range after.
RangeNext(r) ==
    IF r.exhausted \/ r.start > r.end THEN [item |-> None, range |-> r]
    ELSE IF r.start < r.end
         THEN [item |-> Some(r.start), range |-> [r EXCEPT !.start = r.start + 1]]
         ELSE [item |-> Some(r.start), range |-> [r EXCEPT !.exhausted = TRUE]]

\* RangeInclusive::next_back: the yielded index (an Option) and the range after.
RangeNextBack(r) ==
    IF r.exhausted \/ r.start > r.end THEN [item |-> None, range |-> r]
    ELSE IF r.start < r.end
         THEN [item |-> Some(r.end), range |-> [r EXCEPT !.end = r.end - 1]]
         ELSE [item |-> Some(r.end), range |-> [r EXCEPT !.exhausted = TRUE]]

\* A range that starts at 0 instead of 1.
PrefixRangeFromZero(s) == [start |-> 0, end |-> Len(s), exhausted |-> FALSE]

\* (1..=slice.len())
PrefixRange(s) == [start |-> 1, end |-> Len(s), exhausted |-> FALSE]

iter_prefixes(s) == PrefixRange(s)

IdleIt == slice = <<>> /\ range = PrefixRange(<<>>) /\ yielded = <<>> /\ yielded_back = <<>>
          /\ it_done = TRUE
IdleFs == fs = EmptyFS /\ unreadable = {}
IdleC  == c_pc = "done" /\ c_path = root_path /\ dir_entries = <<>> /\ files = <<>> /\ c_result = <<>>
IdleN  == n_pc = "done" /\ starter_path = root_path /\ n_file_name = <<>> /\ starter_dir = None
          /\ walk = [start |-> None, stack |-> <<>>] /\ n_result = None
IdleP  == p_pc = "done" /\ p_call = "none" /\ p_calls = <<root_path>> /\ p_file_name = <<>>
          /\ path = root_path /\ found = None /\ check = {} /\ checked = <<>> /\ p_result = None

InitPrefixes ==
    /\ slice \in SeqsUpTo(MaxLen)
    /\ range = iter_prefixes(slice)
    /\ yielded = <<>>
    /\ yielded_back = <<>>
    /\ it_done = FALSE
    /\ IdleFs /\ IdleC /\ IdleN /\ IdleP

\* it.next() on the iterator iter_prefixes returned.
IterNext ==
    /\ ~it_done
    /\ LET r == RangeNext(range)
       IN  /\ range' = r.range
           /\ IF r.item = None
              THEN it_done' = TRUE /\ yielded' = yielded
              ELSE it_done' = FALSE /\ yielded' = Append(yielded, PrefixOf(slice, Unwrap(r.item)))
    /\ UNCHANGED <<slice, yielded_back, fsVars, cVars, nVars, pVars>>

\* it.next_back() on the iterator iter_prefixes returned.
IterNextBack ==
    /\ ~it_done
    /\ LET r == RangeNextBack(range)
       IN  /\ range' = r.range
           /\ IF r.item = None
              THEN it_done' = TRUE /\ yielded_back' = yielded_back
              ELSE it_done' = FALSE
                   /\ yielded_back' = Append(yielded_back, PrefixOf(slice, Unwrap(r.item)))
    /\ UNCHANGED <<slice, yielded, fsVars, cVars, nVars, pVars>>

NextPrefixes == IterNext \/ IterNextBack

SpecPrefixes == InitPrefixes /\ [][NextPrefixes]_vars

-----------------------------------------------------------------------------
\* get_sway_files (helpers.rs 9-26) and is_sway_file (helpers.rs 28-30).

is_sway_file(file) == is_file(file) /\ Extension(file) = Some(SWAY_EXTENSION)

\* fs::read_dir(d): Some(the entries) or None for Err (d is missing, is not
\* a directory, or cannot be listed).
ReadDir(d) == IF is_dir(d) /\ d \notin unreadable THEN Some(Children(d)) ELSE None

\* The entries of one listing, in its order, that line 18 pushes on the work-list.
PushedDirs(listing) == SelectSeq(listing, is_dir)

\* A collector that tests the extension alone, before asking for the kind.
CollectedFilesByExtension(listing) ==
    LET Test(p) == Extension(p) = Some(SWAY_EXTENSION) IN SelectSeq(listing, Test)

\* The entries of one listing, in its order, that line 20 collects.
CollectedFiles(listing) ==
    LET Test(p) == ~is_dir(p) /\ is_sway_file(p) IN SelectSeq(listing, Test)

InitCollect ==
    /\ fs \in Trees
    /\ unreadable \in SUBSET fs.dirs
    /\ c_path \in StartPaths
    /\ c_pc = "loop"
    /\ dir_entries = <<c_path>>
    /\ files = <<>>
    /\ c_result = <<>>
    /\ IdleIt /\ IdleN /\ IdleP

\* A loop that gives up on the first directory it cannot read.
CollectLoopIterAbort ==
    /\ c_pc = "loop"
    /\ dir_entries # <<>>
    /\ LET next_dir == dir_entries[Len(dir_entries)]
           rest == SubSeq(dir_entries, 1, Len(dir_entries) - 1)
       IN  IF ReadDir(next_dir) = None
           THEN dir_entries' = <<>> /\ files' = files
           ELSE \E listing \in Orders(Unwrap(ReadDir(next_dir))) :
                   /\ dir_entries' = rest \o PushedDirs(listing)
                   /\ files' = files \o CollectedFiles(listing)
    /\ UNCHANGED <<c_pc, c_path, c_result, fsVars, itVars, nVars, pVars>>

\* One iteration of the while-let loop (lines 13-24): pop a directory, list
\* it, push its subdirectories and collect its source files.
CollectLoopIter ==
    /\ c_pc = "loop"
    /\ dir_entries # <<>>
    /\ LET next_dir == dir_entries[Len(dir_entries)]
           rest == SubSeq(dir_entries, 1, Len(dir_entries) - 1)
       IN  IF ReadDir(next_dir) = None
           THEN dir_entries' = rest /\ files' = files
           ELSE \E listing \in Orders(Unwrap(ReadDir(next_dir))) :
                   /\ dir_entries' = rest \o PushedDirs(listing)
                   /\ files' = files \o CollectedFiles(listing)
    /\ UNCHANGED <<c_pc, c_path, c_result, fsVars, itVars, nVars, pVars>>

\* The work-list is empty: return files (line 25).
CollectReturn ==
    /\ c_pc = "loop"
    /\ dir_entries = <<>>
    /\ c_result' = files
    /\ c_pc' = "done"
    /\ UNCHANGED <<c_path, dir_entries, files, fsVars, itVars, nVars, pVars>>

NextCollect == CollectLoopIter \/ CollectReturn

SpecCollect == InitCollect /\ [][NextCollect]_vars

\* The call is not suspended: an enabled step is eventually taken.
FairSpecCollect == SpecCollect /\ WF_vars(NextCollect)

-----------------------------------------------------------------------------
\* find_nested_dir_with_file (helpers.rs 55-72) over walkdir's iterator.

\* An open directory of the walk: the entries not yet yielded, and whether
\* opening it failed (the error is yielded once, in place of the entries).
OpenDir(d) ==
    IF ReadDir(d) = None THEN [err |-> TRUE, rest |-> {}]
    ELSE [err |-> FALSE, rest |-> Unwrap(ReadDir(d))]

\* WalkDir::new(p).into_iter()
WalkDirNew(p) == [start |-> Some(p), stack |-> <<>>]

\* What yielding entry p leaves on the stack: a directory is opened.
HandleEntry(stack, p) == IF is_dir(p) THEN Append(stack, OpenDir(p)) ELSE stack

\* The loop of IntoIter::next over the open directories: exhausted ones are
\* popped, a failed one yields its error, and the deepest open one yields
\* one of its remaining entries, in the order the listing happens to have.
RECURSIVE WalkStack(_)
WalkStack(stack) ==
    IF stack = <<>> THEN { [item |-> "end", path |-> root_path, walk |-> [start |-> None, stack |-> stack]] }
    ELSE LET n == Len(stack)
             top == stack[n]
         IN  IF top.err
             THEN { [item |-> "err", path |-> root_path,
                     walk |-> [start |-> None, stack |-> [stack EXCEPT ![n].err = FALSE]]] }
             ELSE IF top.rest = {} THEN WalkStack(SubSeq(stack, 1, n - 1))
             ELSE { [item |-> "ok", path |-> e,
                     walk |-> [start |-> None,
                               stack |-> HandleEntry([stack EXCEPT ![n].rest = top.rest \ {e}], e)]] :
                    e \in top.rest }

\* IntoIter::next: the possible items (Some(Ok(entry)), Some(Err(_)) or
\* None, here "ok", "err", "end") with the iterator after each.
WalkNext(w) ==
    IF w.start # None
    THEN LET p == Unwrap(w.start)
         IN  IF ~exists(p)
             THEN { [item |-> "err", path |-> root_path, walk |-> [start |-> None, stack |-> <<>>]] }
             ELSE { [item |-> "ok", path |-> p,
                     walk |-> [start |-> None, stack |-> HandleEntry(<<>>, p)]] }
    ELSE WalkStack(w.stack)

\* The closure given to find_map (lines 62-70), on an Ok entry.
NestedMatch(entry_path, dir, name) ==
    IF entry_path # Join(dir, name) /\ FileName(entry_path) = Some(name)
    THEN Some(Pop(entry_path))
    ELSE None

InitNested ==
    /\ fs \in Trees
    /\ unreadable \in SUBSET fs.dirs
    /\ starter_path \in StartPaths
    /\ n_file_name \in Names
    /\ n_pc = "start"
    /\ starter_dir = None
    /\ walk = [start |-> None, stack |-> <<>>]
    /\ n_result = None
    /\ IdleIt /\ IdleC /\ IdleP

\* Lines 56-61: pick starter_dir (returning None when starter_path is not a
\* directory and has no parent) and build the walk over starter_path.
FindNestedStart ==
    /\ n_pc = "start"
    /\ LET dir == IF is_dir(starter_path) THEN Some(starter_path) ELSE Parent(starter_path)
       IN  /\ starter_dir' = dir
           /\ IF dir = None
              THEN n_pc' = "done" /\ walk' = walk
              ELSE n_pc' = "walk" /\ walk' = WalkDirNew(starter_path)
    /\ UNCHANGED <<starter_path, n_file_name, n_result, fsVars, itVars, cVars, pVars>>

\* One step of find_map (lines 61-71): take the next item of the walk, skip
\* an error, return on the first entry the closure maps to Some.
FindNestedStep ==
    /\ n_pc = "walk"
    /\ \E r \in WalkNext(walk) :
          /\ walk' = r.walk
          /\ IF r.item = "end"
             THEN n_pc' = "done" /\ n_result' = None
             ELSE IF r.item = "err"
             THEN n_pc' = "walk" /\ n_result' = n_result
             ELSE LET m == NestedMatch(r.path, Unwrap(starter_dir), n_file_name)
                  IN  IF m = None
                      THEN n_pc' = "walk" /\ n_result' = n_result
                      ELSE n_pc' = "done" /\ n_result' = m
    /\ UNCHANGED <<starter_path, n_file_name, starter_dir, fsVars, itVars, cVars, pVars>>

NextNested == FindNestedStart \/ FindNestedStep

SpecNested == InitNested /\ [][NextNested]_vars

-----------------------------------------------------------------------------
\* find_parent_dir_with_file (helpers.rs 77-93), find_parent_manifest_dir
\* (95-98) and find_parent_manifest_dir_with_check (102-119).

DotDot == <<".", ".">>

\* std::fs::canonicalize: resolve the components from "/" on, ".." stepping
\* back to the parent; Err (None) when a component is missing or is looked
\* up in something that is not a directory.
RECURSIVE Resolve(_, _)
Resolve(at, rest) ==
    IF rest = <<>> THEN (IF exists(at) THEN Some(at) ELSE None)
    ELSE IF ~is_dir(at) THEN None
    ELSE IF Head(rest) = DotDot THEN Resolve(Pop(at), Tail(rest))
    ELSE Resolve(Join(at, Head(rest)), Tail(rest))

Canonicalize(p) == Resolve(root_path, p)

\* The paths an upward search can be given: also a ".." below every directory.
UpStartPaths == StartPaths \cup { Join(d, DotDot) : d \in fs.dirs }

InitParent ==
    /\ fs \in UpTrees
    /\ unreadable = {}
    /\ p_call \in {"find_parent_dir_with_file", "find_parent_manifest_dir_with_check"}
    /\ \E p \in UpStartPaths : p_calls = <<p>>
    /\ IF p_call = "find_parent_dir_with_file"
       THEN p_file_name \in UpNames /\ check = {}
       ELSE p_file_name = MANIFEST_FILE_NAME /\ check \in SUBSET fs.dirs
    /\ p_pc = "canon"
    /\ path = root_path
    /\ found = None
    /\ checked = <<>>
    /\ p_result = None
    /\ IdleIt /\ IdleC /\ IdleN

\* Line 81: canonicalize the starting path, returning None when that fails.
CanonicalizeStart ==
    /\ p_pc = "canon"
    /\ LET c == Canonicalize(p_calls[Len(p_calls)])
       IN  IF c = None
           THEN p_pc' = "found" /\ found' = None /\ path' = path
           ELSE p_pc' = "loop" /\ found' = found /\ path' = Unwrap(c)
    /\ UNCHANGED <<p_call, p_calls, p_file_name, check, checked, p_result,
                   fsVars, itVars, cVars, nVars>>

\* An iteration that pops the pushed file name but not the directory.
WalkUpIterOnePop ==
    /\ p_pc = "loop"
    /\ path # root_path
    /\ LET pushed == Join(path, p_file_name)
       IN  IF exists(pushed)
           THEN p_pc' = "found" /\ path' = Pop(pushed) /\ found' = Some(Pop(pushed))
           ELSE p_pc' = "loop" /\ path' = Pop(pushed) /\ found' = found
    /\ UNCHANGED <<p_call, p_calls, p_file_name, check, checked, p_result,
                   fsVars, itVars, cVars, nVars>>

\* One iteration of the while loop (lines 83-91): test path/file_name,
\* return path when it exists, else move one level up.
WalkUpIter ==
    /\ p_pc = "loop"
    /\ path # root_path
    /\ LET pushed == Join(path, p_file_name)
       IN  IF exists(pushed)
           THEN p_pc' = "found" /\ path' = Pop(pushed) /\ found' = Some(Pop(pushed))
           ELSE p_pc' = "loop" /\ path' = Pop(Pop(pushed)) /\ found' = found
    /\ UNCHANGED <<p_call, p_calls, p_file_name, check, checked, p_result,
                   fsVars, itVars, cVars, nVars>>

\* The loop condition fails (line 83): path is "/", return None (line 92).
WalkUpEnd ==
    /\ p_pc = "loop"
    /\ path = root_path
    /\ p_pc' = "found"
    /\ found' = None
    /\ UNCHANGED <<p_call, p_calls, p_file_name, path, check, checked, p_result,
                   fsVars, itVars, cVars, nVars>>

\* find_parent_dir_with_file, called directly, returns to its caller.
ReturnFound ==
    /\ p_pc = "found"
    /\ p_call = "find_parent_dir_with_file"
    /\ p_result' = found
    /\ p_pc' = "done"
    /\ UNCHANGED <<p_call, p_calls, p_file_name, path, found, check, checked,
                   fsVars, itVars, cVars, nVars>>

\* A retry that starts again from the rejected directory itself.
AndThenCheckSameDir ==
    /\ p_pc = "found"
    /\ p_call = "find_parent_manifest_dir_with_check"
    /\ IF found = None
       THEN p_result' = None /\ p_pc' = "done" /\ UNCHANGED <<checked, p_calls>>
       ELSE LET manifest_dir == Unwrap(found)
            IN  /\ checked' = Append(checked, manifest_dir)
                /\ IF manifest_dir \in check
                   THEN p_result' = Some(manifest_dir) /\ p_pc' = "done" /\ p_calls' = p_calls
                   ELSE p_result' = p_result /\ p_pc' = "canon" /\ p_calls' = Append(p_calls, manifest_dir)
    /\ UNCHANGED <<p_call, p_file_name, path, found, check, fsVars, itVars, cVars, nVars>>

\* The and_then closure (lines 109-118) on what find_parent_manifest_dir
\* returned: None is passed on; a directory the check accepts is returned;
\* one it rejects restarts the search from its parent, if it has one.
AndThenCheck ==
    /\ p_pc = "found"
    /\ p_call = "find_parent_manifest_dir_with_check"
    /\ IF found = None
       THEN p_result' = None /\ p_pc' = "done" /\ UNCHANGED <<checked, p_calls>>
       ELSE LET manifest_dir == Unwrap(found)
            IN  /\ checked' = Append(checked, manifest_dir)
                /\ IF manifest_dir \in check
                   THEN p_result' = Some(manifest_dir) /\ p_pc' = "done" /\ p_calls' = p_calls
                   ELSE IF Parent(manifest_dir) = None
                   THEN p_result' = None /\ p_pc' = "done" /\ p_calls' = p_calls
                   ELSE p_result' = p_result /\ p_pc' = "canon"
                        /\ p_calls' = Append(p_calls, Unwrap(Parent(manifest_dir)))
    /\ UNCHANGED <<p_call, p_file_name, path, found, check, fsVars, itVars, cVars, nVars>>

NextParent == CanonicalizeStart \/ WalkUpIter \/ WalkUpEnd \/ ReturnFound \/ AndThenCheck

SpecParent == InitParent /\ [][NextParent]_vars

\* find_parent_dir_with_file called directly, on its own.
InitWalkUp == InitParent /\ p_call = "find_parent_dir_with_file"

NextWalkUp == CanonicalizeStart \/ WalkUpIter \/ WalkUpEnd \/ ReturnFound

\* The call is not suspended: an enabled step is eventually taken.
FairSpecWalkUp == InitWalkUp /\ [][NextWalkUp]_vars /\ WF_vars(NextWalkUp)

-----------------------------------------------------------------------------
\* Properties of iter_prefixes.

ToSet(seq) == { seq[i] : i \in DOMAIN seq }

\* C1: consumed forward (no next_back), iter_prefixes yields exactly
\* Len(slice) items, the k-th being the first k elements of the slice (so
\* none is empty, none is longer than the slice, and the last is the whole
\* slice); an empty slice yields nothing.
PrefixesContract ==
    yielded_back = <<>>
        => /\ Len(yielded) <= Len(slice)
           /\ \A k \in 1..Len(yielded) :
                 /\ Len(yielded[k]) = k
                 /\ \A i \in 1..k : yielded[k][i] = slice[i]
           /\ it_done => /\ Len(yielded) = Len(slice)
                         /\ Len(slice) > 0 => yielded[Len(yielded)] = slice

\* A slice of two or more elements has been consumed forward to the end.
PrefixesWitness ==
    it_done /\ yielded_back = <<>> /\ Len(slice) >= 2 /\ Len(yielded) = Len(slice)

-----------------------------------------------------------------------------
\* Properties of get_sway_files.

\* p lies strictly below d.
Under(d, p) == Len(p) > Len(d) /\ IsPrefix(d, p)

\* The directories from d down to the parent of p (p below d).
Between(d, p) == { SubSeq(p, 1, k) : k \in Len(d)..(Len(p) - 1) }

\* The regular files below d that carry the source extension.
SwayFilesUnder(d) ==
    { p \in fs.files : Under(d, p) /\ Extension(p) = Some(SWAY_EXTENSION) }

\* Those of them that are reached from d through readable directories only.
ReachableSwayFiles(d) ==
    { p \in SwayFilesUnder(d) : Between(d, p) \cap unreadable = {} }

\* C2: when every directory under the root can be read, get_sway_files
\* returns exactly the regular files below the root that carry the source
\* extension, each once, and never a directory.
CollectExact ==
    (c_pc = "done" /\ \A d \in fs.dirs : IsPrefix(c_path, d) => d \notin unreadable)
        => /\ ToSet(c_result) = SwayFilesUnder(c_path)
           /\ Len(c_result) = Cardinality(SwayFilesUnder(c_path))
           /\ ToSet(c_result) \cap fs.dirs = {}

\* A readable tree has been collected in which a source file lies inside a
\* directory that carries the extension itself, next to a file that does not.
CollectExactWitness ==
    /\ c_pc = "done"
    /\ unreadable = {}
    /\ \E q \in ToSet(c_result) :
          /\ Len(q) = Len(c_path) + 2
          /\ Extension(Pop(q)) = Some(SWAY_EXTENSION)
    /\ \E p \in fs.files : Under(c_path, p) /\ p \notin ToSet(c_result)

\* C7: with unreadable directories under the root the call still returns,
\* and returns exactly the source files reached through readable
\* directories: an unreadable directory contributes nothing and hides
\* nothing outside itself, in every traversal order.
CollectBestEffort ==
    <>(c_pc = "done" /\ ToSet(c_result) = ReachableSwayFiles(c_path))

\* The call has returned a file although a directory below the root, listed
\* next to it, could not be read and held a source file.
CollectBestEffortWitness ==
    /\ c_pc = "done"
    /\ c_result # <<>>
    /\ \E d \in unreadable : Under(c_path, d) /\ SwayFilesUnder(d) # {}

-----------------------------------------------------------------------------
\* Properties of find_nested_dir_with_file.

\* The entries strictly inside the subtree rooted at d that are named name,
\* other than d/name itself.
NestedOccurrences(d, name) ==
    { p \in fs.dirs \cup fs.files :
        Under(d, p) /\ FileName(p) = Some(name) /\ p # Join(d, name) }

\* The contract of the downward search from directory d over the set occ of
\* qualifying entries: the parent of one of them is returned, absent exactly
\* when there is none; so with d/name and one nested occurrence d/c/name
\* the result is d/c, and with d/name alone it is absent.
NestedContract(d, name, occ) ==
    /\ n_result = None <=> occ = {}
    /\ n_result # None => \E p \in occ : n_result = Some(Pop(p))
    /\ \A c \in Names :
          (exists(Join(d, name)) /\ occ = {Join(Join(d, c), name)})
              => n_result = Some(Join(d, c))
    /\ (exists(Join(d, name)) /\ occ = {}) => n_result = None

\* C3: on a fully readable tree, the search from a starting directory S
\* returns the parent of some entry inside the subtree of S named file_name
\* other than S/file_name, and absent if and only if the subtree holds no
\* such entry.
NestedFindsAnyOccurrence ==
    (n_pc = "done" /\ is_dir(starter_path) /\ unreadable = {})
        => NestedContract(starter_path, n_file_name,
                          NestedOccurrences(starter_path, n_file_name))

\* C6: started at a regular file of a fully readable tree, the search covers
\* the subtree of the file's parent directory: when that subtree holds an
\* entry named file_name other than parent/file_name, the parent of such an
\* entry is returned.
NestedFromFileSearchesParent ==
    (n_pc = "done" /\ is_file(starter_path) /\ unreadable = {})
        => LET occ == NestedOccurrences(Pop(starter_path), n_file_name)
           IN  occ # {} => \E p \in occ : n_result = Some(Pop(p))

\* C8: on a fully readable tree, a directory returned by the search from
\* directory S lies strictly below S.
NestedResultBelowStart ==
    (n_pc = "done" /\ is_dir(starter_path) /\ unreadable = {} /\ n_result # None)
        => Under(starter_path, Unwrap(n_result))

-----------------------------------------------------------------------------
\* Properties of the upward searches.

\* c and its ancestors, up to "/" included.
Levels(c) == { SubSeq(c, 1, k) : k \in 0..Len(c) }

\* The deepest directory of a set of levels of one path, None when empty.
Nearest(S) == IF S = {} THEN None ELSE Some(CHOOSE d \in S : \A e \in S : Len(e) <= Len(d))

\* The levels of the canonical starting path that hold an entry named name.
LevelsWith(name) ==
    LET c == Canonicalize(p_calls[1])
    IN  IF c = None THEN {} ELSE { d \in Levels(Unwrap(c)) : exists(Join(d, name)) }

\* C4: find_parent_dir_with_file returns the nearest of the canonical
\* starting path and its ancestors, "/" included, that holds an entry named
\* file_name, and absent only when none of them does (or the starting path
\* cannot be canonicalized).
ParentFindsNearest ==
    (p_pc = "done" /\ p_call = "find_parent_dir_with_file")
        => p_result = Nearest(LevelsWith(p_file_name))

\* C5: find_parent_manifest_dir_with_check returns the nearest of the
\* starting path and its ancestors that holds the manifest and is accepted
\* by the check, and absent exactly when there is none.
ParentFindsNearestAccepted ==
    (p_pc = "done" /\ p_call = "find_parent_manifest_dir_with_check")
        => p_result = Nearest(LevelsWith(MANIFEST_FILE_NAME) \cap check)

\* C9: the upward walk terminates: an iteration without a match moves path
\* exactly one level up, at "/" the walk ends with None and path stays "/",
\* and a direct call started at "/" returns absent.
UpwardWalkTerminates ==
    /\ <>(p_pc = "done")
    /\ [][(p_pc = "loop" /\ p_pc' = "loop")
            => (path # root_path /\ Parent(path) = Some(path') /\ Len(path') = Len(path) - 1)]_vars
    /\ [][(p_pc = "loop" /\ path = root_path)
            => (p_pc' = "found" /\ found' = None /\ path' = root_path)]_vars
    /\ []((p_pc = "done" /\ p_call = "find_parent_dir_with_file"
              /\ Canonicalize(p_calls[1]) = Some(root_path))
            => p_result = None)

\* A direct call has walked from two or more levels down up to "/" without
\* a match and returned absent.
UpwardWalkWitness ==
    /\ p_pc = "done"
    /\ p_call = "find_parent_dir_with_file"
    /\ Canonicalize(p_calls[1]) # None
    /\ Len(Unwrap(Canonicalize(p_calls[1]))) >= 2
    /\ path = root_path
    /\ p_result = None

\* C10: within one call the check is invoked only on directories that hold
\* the manifest, from the nearest ancestor to the farthest (each strictly
\* above the one before, so at most once per directory and finitely often),
\* and never again after it has returned true.
CheckInvocations ==
    /\ \A i \in 1..Len(checked) :
          /\ exists(Join(checked[i], MANIFEST_FILE_NAME))
          /\ Canonicalize(p_calls[1]) # None
          /\ IsPrefix(checked[i], Unwrap(Canonicalize(p_calls[1])))
    /\ \A i, j \in 1..Len(checked) : i < j => Under(checked[j], checked[i])
    /\ \A i \in 1..(Len(checked) - 1) : checked[i] \notin check

\* The check has rejected the nearest manifest directory and accepted a
\* farther one.
CheckInvocationsWitness ==
    /\ p_pc = "done"
    /\ p_call = "find_parent_manifest_dir_with_check"
    /\ Len(checked) >= 2
    /\ p_result # None

====
